---- MODULE Spec2Model ----
(***************************************************************************)
(* Model of the Fantasy Draft Board script (src/app.py): one script run    *)
(* (a Streamlit "refresh cycle") loads the rankings table, fetches the     *)
(* Sleeper picks through a memoised function, marks drafted players and    *)
(* renders one table per position.                                         *)
(*                                                                         *)
(* Strings whose characters matter (player names) are sequences of         *)
(* one-character strings.  JSON null is the one-element sequence Null; an  *)
(* absent JSON key is a key outside the DOMAIN of the dict.                *)
(***************************************************************************)
EXTENDS Integers, Sequences, FiniteSets, Bags, TLC

VARIABLES
    csv,            \* the uploaded file: headers, header order choice, rows
    draft_id,       \* sidebar text input "Sleeper Draft ID"
    upstream,       \* the pick list the Sleeper API would return now
    cache,          \* st.cache_data store of fetch_sleeper_picks, by draft id
    loaded,         \* the rankings table as loaded, before marking
    df,             \* the rankings table of the last cycle, after marking
    picks,          \* the pick list the last cycle worked with
    drafted_names,  \* extract_drafted_names(picks) of the last cycle
    current_round,  \* estimate_current_round(picks) of the last cycle
    shown_round,    \* the round written to the page (0: nothing written)
    rendered,       \* position tables drawn by the last cycle: pos -> row indices
    messages,       \* st.warning / st.error / st.info elements of the last cycle
    fetch,          \* how the last cycle obtained its picks
    phase           \* "idle" before the first cycle, then "done" or "raised"

vars == <<csv, draft_id, upstream, cache, loaded, df, picks, drafted_names,
          current_round, shown_round, rendered, messages, fetch, phase>>

----------------------------------------------------------------------------
(* Bounds *)

MaxPicks == 3
MaxRows == 2

----------------------------------------------------------------------------
(* Strings *)

Null == <<"null">>

\* JSON null where the value is an identifier (picked_by)
NullId == "<null>"

Max(a, b) == IF a >= b THEN a ELSE b

RECURSIVE LStrip(_)
LStrip(s) == IF s # <<>> /\ Head(s) = " " THEN LStrip(Tail(s)) ELSE s

RECURSIVE RStrip(_)
RStrip(s) ==
    IF s # <<>> /\ s[Len(s)] = " " THEN RStrip(SubSeq(s, 1, Len(s) - 1)) ELSE s

\* str.strip()
Strip(s) == RStrip(LStrip(s))

\* dict.get(key): None when the key is absent
Get(d, k) == IF k \in DOMAIN d THEN d[k] ELSE Null

\* the (x or "") guard left out
OrEmptyUnguarded(v) == v

\* (x or ""): None and "" are both falsy
OrEmpty(v) == IF v = Null THEN <<>> ELSE v

\* the {} of (p.get("metadata") or {})
EmptyDict == [k \in {} |-> Null]

\* metadata null in the JSON
NullDict == [k \in {"null"} |-> Null]

OrEmptyDict(m) == IF m = NullDict THEN EmptyDict ELSE m

GetMeta(p) == IF "metadata" \in DOMAIN p THEN p["metadata"] ELSE NullDict

----------------------------------------------------------------------------
(* Pick lists *)

Bo == <<"B", "o">>
Ax == <<"A", "x">>
Cy == <<"C", "y">>
Di == <<"D", "i">>
BoAx == <<"B", "o", " ", "A", "x">>

\* f"{first} {last}".strip()
FullName(first, last) == Strip(first \o <<" ">> \o last)

PickName(p) ==
    LET meta == OrEmptyDict(GetMeta(p))
        first == Strip(OrEmpty(Get(meta, "first_name")))
        last == Strip(OrEmpty(Get(meta, "last_name")))
    IN FullName(first, last)

RECURSIVE extract_drafted_names(_)
extract_drafted_names(ps) ==
    IF ps = <<>> THEN <<>>
    ELSE LET full == PickName(Head(ps))
             rest == extract_drafted_names(Tail(ps))
         IN IF full # <<>> THEN <<full>> \o rest ELSE rest

\* the truthiness test of p.get("picked_by")
PickedBy(p) ==
    IF "picked_by" \in DOMAIN p /\ p["picked_by"] \notin {NullId, ""}
    THEN {p["picked_by"]} ELSE {}

Teams(ps) == UNION {PickedBy(ps[i]) : i \in DOMAIN ps}

estimate_current_round(ps) ==
    IF ps = <<>> THEN 1
    ELSE LET num_teams == Max(1, Cardinality(Teams(ps)))
         IN Max(1, (Len(ps) \div num_teams) + 1)

----------------------------------------------------------------------------
(* Rankings table: columns *)

REQUIRED_COLS == {"Rank", "Player", "Position", "NFL Team"}

\* c.lower().strip() on the header names of the files below
LowerStrip(c) ==
    CASE c = "Rank" -> "rank"
      [] c = "Player" -> "player"
      [] c = "Position" -> "position"
      [] c = "NFL Team" -> "nfl team"
      [] c = "Drafted" -> "drafted"
      [] OTHER -> c

candidates ==
    [k \in {"rank", "overall", "ecr", "player", "name", "position", "pos",
            "nfl team", "team", "nfl"} |->
        CASE k \in {"rank", "overall", "ecr"} -> "Rank"
          [] k \in {"player", "name"} -> "Player"
          [] k \in {"position", "pos"} -> "Position"
          [] OTHER -> "NFL Team"]

\* The dicts {c.lower().strip(): c for c in columns} that some column order
\* of the header set H produces: of two headers with the same lowered name
\* the later one stays.
LowerMaps(H) ==
    LET keys == {LowerStrip(c) : c \in H}
        last == {W \in SUBSET H :
                    \A k \in keys : Cardinality({c \in W : LowerStrip(c) = k}) = 1}
    IN {[k \in keys |-> CHOOSE c \in W : LowerStrip(c) = k] : W \in last}

rename_map(lower_map) ==
    LET hit == {k \in DOMAIN candidates : k \in DOMAIN lower_map}
    IN [c \in {lower_map[k] : k \in hit} |-> candidates[LowerStrip(c)]]

\* df.rename(columns=rename_map): the column labels, with multiplicity
Rename(H, rmap) ==
    LET new(c) == IF c \in DOMAIN rmap THEN rmap[c] ELSE c
    IN [n \in {new(c) : c \in H} |-> Cardinality({c \in H : new(c) = n})]

HasCol(cols, n) == n \in DOMAIN cols

Missing(cols) == {n \in REQUIRED_COLS : ~HasCol(cols, n)}

Msg(kind, text, about) == [kind |-> kind, text |-> text, about |-> about]

\* the DataFrame(columns=list(REQUIRED_COLS) + ["Drafted"]) of the fallbacks
EmptyFrame ==
    [cols |-> [n \in REQUIRED_COLS \cup {"Drafted"} |-> 1], rows |-> <<>>]

NA == "NA"

\* One table row; Player is a name or Null (NaN), Position a string or NA.
Row(rank, player, position, drafted) ==
    [Rank |-> rank, Player |-> player, Position |-> position, Drafted |-> drafted]

AddRankCol(cols) == IF HasCol(cols, "Rank") THEN cols ELSE cols (+) SetToBag({"Rank"})

AddDraftedCol(cols) ==
    IF HasCol(cols, "Drafted") THEN cols ELSE cols (+) SetToBag({"Drafted"})

\* The table normalize_columns returns for the headers H read in an order
\* that yields lower_map, and the warnings it emits.
normalize_columns(H, lower_map, rows) ==
    IF rows = <<>>
    THEN [cols |-> [n \in H |-> 1], rows |-> rows, msgs |-> {}]
    ELSE
    LET renamed == Rename(H, rename_map(lower_map))
        ranked == AddRankCol(renamed)
        rows1 == IF HasCol(renamed, "Rank") THEN rows
                 ELSE [i \in DOMAIN rows |-> [rows[i] EXCEPT !.Rank = i]]
        missing == Missing(ranked)
        rows2 == IF HasCol(ranked, "Drafted") THEN rows1
                 ELSE [i \in DOMAIN rows1 |-> [rows1[i] EXCEPT !.Drafted = FALSE]]
    IN [cols |-> AddDraftedCol(ranked),
        rows |-> rows2,
        msgs |-> IF missing # {}
                 THEN {Msg("warning", "missing after normalization", missing)}
                 ELSE {}]

\* load_player_data(uploaded_csv) / load_default_rankings(DEFAULT_CSV_URL)
LoadRankings(file) ==
    IF ~file.uploaded
    THEN [cols |-> EmptyFrame.cols, rows |-> <<>>,
          msgs |-> {Msg("info", "default rankings URL is not set", {})}]
    ELSE IF file.headers = {}
    THEN [cols |-> EmptyFrame.cols, rows |-> <<>>,
          msgs |-> {Msg("error", "error loading uploaded CSV", {})}]
    ELSE normalize_columns(file.headers, file.lower_map, file.rows)

----------------------------------------------------------------------------
(* Picks: the memoised fetch *)

NoPicks == <<>>

FetchWarning == Msg("warning", "could not fetch Sleeper draft data", {})

\* fetch_sleeper_picks under @st.cache_data: a stored entry is returned (and
\* its elements replayed) without a request; otherwise the request is made,
\* ok says whether it succeeds, and the outcome is stored either way.
fetch_sleeper_picks(id, store, up, ok) ==
    IF id \in DOMAIN store
    THEN [value |-> store[id].value, msgs |-> store[id].msgs,
          store |-> store, how |-> "hit"]
    ELSE LET entry == IF ok THEN [value |-> up, msgs |-> {}]
                      ELSE [value |-> NoPicks, msgs |-> {FetchWarning}]
         IN [value |-> entry.value, msgs |-> entry.msgs,
             store |-> [d \in DOMAIN store \cup {id} |->
                           IF d = id THEN entry ELSE store[d]],
             how |-> IF ok THEN "ok" ELSE "failed"]

\* picks = fetch_sleeper_picks(draft_id) if draft_id else []
FetchPicks(id, store, up, ok) ==
    IF id # ""
    THEN fetch_sleeper_picks(id, store, up, ok)
    ELSE [value |-> NoPicks, msgs |-> {}, store |-> store, how |-> "none"]

\* drafted_names = extract_drafted_names(picks) if picks else []
DraftedNames(ps) == IF ps # <<>> THEN extract_drafted_names(ps) ELSE <<>>

\* current_round = estimate_current_round(picks) if picks else 1
CurrentRound(ps) == IF ps # <<>> THEN estimate_current_round(ps) ELSE 1

----------------------------------------------------------------------------
(* Marking and rendering *)

Range(f) == {f[i] : i \in DOMAIN f}

\* df["Player"].isin(drafted_names), row by row
IsIn(player, names) == player \in Range(names)

\* marking that also drops the drafted rows from the table
MarkAndDrop(t, names) ==
    [cols |-> AddDraftedCol(t.cols),
     rows |-> SelectSeq([i \in DOMAIN t.rows |->
                            [t.rows[i] EXCEPT !.Drafted = IsIn(t.rows[i].Player, names)]],
                        LAMBDA r : ~r.Drafted),
     raised |-> FALSE]

\* df["Drafted"] = df["Player"].isin(drafted_names): with two Player columns
\* the right-hand side is a two-column frame and the assignment raises.
MarkDrafted(t, names) ==
    IF t.rows # <<>> /\ HasCol(t.cols, "Player")
    THEN IF t.cols["Player"] > 1
         THEN [cols |-> t.cols, rows |-> t.rows, raised |-> TRUE]
         ELSE [cols |-> AddDraftedCol(t.cols),
               rows |-> [i \in DOMAIN t.rows |->
                           [t.rows[i] EXCEPT !.Drafted = IsIn(t.rows[i].Player, names)]],
               raised |-> FALSE]
    ELSE [cols |-> t.cols, rows |-> t.rows, raised |-> FALSE]

\* str(pos).upper() on the position values of the model; NaN prints as "nan"
Upper(pos) ==
    CASE pos = "qb" -> "QB"
      [] pos = "wr" -> "WR"
      [] pos = NA -> "NAN"
      [] OTHER -> pos

\* the view without the ~df["Drafted"] filter
ViewAll(t) == DOMAIN t.rows

\* df[~df["Drafted"]]: the indices of the rows kept for display
View(t) ==
    IF HasCol(t.cols, "Drafted")
    THEN {i \in DOMAIN t.rows : ~t.rows[i].Drafted}
    ELSE DOMAIN t.rows

\* df_display["Position"].dropna().astype(str).str.upper().unique()
Positions(t, view) == {Upper(t.rows[i].Position) : i \in {j \in view : t.rows[j].Position # NA}}

RECURSIVE SortByRank(_, _)
\* sort_values(by="Rank"): the indices in S by ascending Rank
SortByRank(S, rows) ==
    IF S = {} THEN <<>>
    ELSE LET first == CHOOSE i \in S :
                        \A j \in S : rows[i].Rank < rows[j].Rank
                                     \/ (rows[i].Rank = rows[j].Rank /\ i <= j)
         IN <<first>> \o SortByRank(S \ {first}, rows)

PosRows(t, view, pos) == {i \in view : Upper(t.rows[i].Position) = pos}

display_cols == {"Rank", "Player", "Position", "NFL Team", "Drafted"}

NoTables == [p \in {} |-> <<>>]

\* render_draft_board: the tables drawn, the messages, and whether it raised.
\* A duplicated Position label makes df_display["Position"] a frame without
\* .str; a duplicated Rank label is rejected by sort_values and any other
\* duplicated display label by the Styler, in the first table of the loop.
render_draft_board(t) ==
    LET missing == Missing(t.cols)
        view == View(t)
        positions == Positions(t, view)
        dup == {n \in display_cols : HasCol(t.cols, n) /\ t.cols[n] > 1}
    IN IF missing # {}
       THEN [tables |-> NoTables, raised |-> FALSE,
             msgs |-> {Msg("error", "cannot render board, missing required columns", missing)}]
       ELSE IF view = {}
       THEN [tables |-> NoTables, raised |-> FALSE,
             msgs |-> {Msg("info", "no available players to display", {})}]
       ELSE IF "Position" \in dup \/ (positions # {} /\ dup # {})
       THEN [tables |-> NoTables, raised |-> TRUE, msgs |-> {}]
       ELSE [tables |-> [p \in positions |-> SortByRank(PosRows(t, view, p), t.rows)],
             raised |-> FALSE, msgs |-> {}]

----------------------------------------------------------------------------
(* One run of the script *)

Table(t) == [cols |-> t.cols, rows |-> t.rows]

\* The script body, lines 215-243; ok: whether an upstream request made in
\* this run succeeds.
RunCycle ==
    \E ok \in BOOLEAN :
      LET t == LoadRankings(csv)
          f == FetchPicks(draft_id, cache, upstream, ok)
          names == DraftedNames(f.value)
          round == CurrentRound(f.value)
          m == MarkDrafted(t, names)
          r == render_draft_board(m)
      IN /\ loaded' = Table(t)
         /\ df' = Table(m)
         /\ cache' = f.store
         /\ fetch' = f.how
         /\ picks' = f.value
         /\ drafted_names' = names
         /\ current_round' = round
         /\ shown_round' = IF m.raised THEN 0 ELSE round
         /\ rendered' = IF m.raised THEN NoTables ELSE r.tables
         /\ messages' = t.msgs \cup f.msgs \cup (IF m.raised THEN {} ELSE r.msgs)
         /\ phase' = IF m.raised \/ r.raised THEN "raised" ELSE "done"
         /\ UNCHANGED <<csv, draft_id, upstream>>

----------------------------------------------------------------------------
(* Inputs *)

PickBo == [metadata |-> [first_name |-> Bo, last_name |-> Ax], picked_by |-> "t1"]
PickCy == [metadata |-> [first_name |-> Cy, last_name |-> Di], picked_by |-> "t2"]

\* picks as the service normally sends them
SimplePicks == {PickBo, PickCy}

\* metadata values of a pick: null, a full name, a null first name with a
\* blank last name, and a lone last name with a trailing space
Metas ==
    {NullDict,
     [first_name |-> Bo, last_name |-> Ax],
     [first_name |-> Null, last_name |-> <<" ">>],
     [last_name |-> <<"D", "i", " ">>]}

TeamIds == {"t1", "t2"}

\* picks with any of metadata, first_name, last_name, picked_by absent or null
PickUniverse ==
    {[metadata |-> m, picked_by |-> t] : m \in Metas, t \in TeamIds \cup {NullId}}
    \cup {[metadata |-> m] : m \in Metas}
    \cup {[picked_by |-> t] : t \in TeamIds \cup {NullId}}
    \cup {EmptyDict}

LowerBoAx == <<"b", "o", " ", "a", "x">>

PlayerValues == {BoAx, LowerBoAx}

PositionValues == {"QB", "qb", NA}

NoFile == [uploaded |-> FALSE, headers |-> {}, lower_map |-> <<>>, rows |-> <<>>]

Targets(H) == {candidates[LowerStrip(c)] : c \in {h \in H : LowerStrip(h) \in DOMAIN candidates}}

\* The data rows of a file with headers H, up to MaxRows of them.  A file
\* with a rank column lists its rows by descending rank; a value of a column
\* the file does not have is NaN.
RowsFor(H) ==
    LET pv == IF "Player" \in Targets(H) THEN PlayerValues ELSE {Null}
        qv == IF "Position" \in Targets(H) THEN PositionValues ELSE {NA}
        rk(i, n) == IF "Rank" \in Targets(H) THEN n + 1 - i ELSE 0
    IN UNION {{[i \in 1..n |-> Row(rk(i, n), f[i][1], f[i][2], "Drafted" \in H)] :
                  f \in [1..n -> pv \X qv]} : n \in 0..MaxRows}

FilesWith(H) ==
    IF H = {} THEN {[uploaded |-> TRUE, headers |-> {}, lower_map |-> <<>>, rows |-> <<>>]}
    ELSE {[uploaded |-> TRUE, headers |-> H, lower_map |-> lm, rows |-> rs] :
             lm \in LowerMaps(H), rs \in RowsFor(H)}

\* header sets of the board files: per target none, one or two synonyms
BoardHeaderSets ==
    {r \cup p \cup q \cup t \cup d :
        r \in {{}, {"rank"}, {"rank", "overall"}},
        p \in {{}, {"Player"}, {"name", "Player"}},
        q \in {{}, {"pos"}, {"pos", "Position"}},
        t \in {{}, {"team"}},
        d \in {{}, {"Drafted"}}}

BoardFiles == {NoFile} \cup UNION {FilesWith(H) : H \in BoardHeaderSets}

BoardUpstreams == {<<>>, <<PickBo>>}

TwoRows(H) ==
    {rs \in RowsFor(H) : Len(rs) = 2 /\ rs[1].Player = BoAx /\ rs[2].Player = LowerBoAx
                          /\ rs[1].Position = "QB" /\ rs[2].Position = "qb"}

\* files of the fetch specification: a well-formed one, one with two headers
\* that differ in case only, and one with two player columns
FetchFiles ==
    {NoFile}
    \cup {[uploaded |-> TRUE, headers |-> H, lower_map |-> lm, rows |-> rs] :
             H \in {{"Rank", "Player", "Position", "NFL Team"}},
             lm \in LowerMaps({"Rank", "Player", "Position", "NFL Team"}),
             rs \in TwoRows({"Rank", "Player", "Position", "NFL Team"})}
    \cup {[uploaded |-> TRUE, headers |-> H, lower_map |-> lm, rows |-> rs] :
             H \in {{"Rank", "rank", "Player", "Position", "NFL Team"}},
             lm \in LowerMaps({"Rank", "rank", "Player", "Position", "NFL Team"}),
             rs \in TwoRows({"Rank", "rank", "Player", "Position", "NFL Team"})}
    \cup {[uploaded |-> TRUE, headers |-> H, lower_map |-> lm, rows |-> rs] :
             H \in {{"name", "Player", "pos", "team"}},
             lm \in LowerMaps({"name", "Player", "pos", "team"}),
             rs \in TwoRows({"name", "Player", "pos", "team"})}

DraftIds == {"", "d1"}

NoCache == [d \in {} |-> [value |-> NoPicks, msgs |-> {}]]

----------------------------------------------------------------------------
(* Specifications *)

\* the page before the first run
Fresh ==
    /\ cache = NoCache
    /\ loaded = EmptyFrame
    /\ df = EmptyFrame
    /\ picks = NoPicks
    /\ drafted_names = <<>>
    /\ current_round = 1
    /\ shown_round = 0
    /\ rendered = NoTables
    /\ messages = {}
    /\ fetch = "none"
    /\ phase = "idle"

Init ==
    /\ csv = NoFile
    /\ draft_id = ""
    /\ upstream = NoPicks
    /\ Fresh

\* the user types a draft id
SetDraftId ==
    \E d \in DraftIds :
        /\ d # draft_id
        /\ draft_id' = d
        /\ UNCHANGED <<csv, upstream, cache, loaded, df, picks, drafted_names,
                       current_round, shown_round, rendered, messages, fetch, phase>>

\* the user uploads a rankings file
Upload ==
    \E c \in FetchFiles :
        /\ c # csv
        /\ csv' = c
        /\ UNCHANGED <<draft_id, upstream, cache, loaded, df, picks, drafted_names,
                       current_round, shown_round, rendered, messages, fetch, phase>>

\* a team picks a player: the service's pick list grows
UpstreamPick ==
    \E p \in SimplePicks :
        /\ Len(upstream) < MaxPicks
        /\ upstream' = Append(upstream, p)
        /\ UNCHANGED <<csv, draft_id, cache, loaded, df, picks, drafted_names,
                       current_round, shown_round, rendered, messages, fetch, phase>>

Next == RunCycle \/ SetDraftId \/ Upload \/ UpstreamPick

Spec == Init /\ [][Next]_vars

\* Board: one file and one upstream pick list, then script runs
InitBoard ==
    /\ csv \in BoardFiles
    /\ draft_id = "d1"
    /\ upstream \in BoardUpstreams
    /\ Fresh

NextBoard == RunCycle

SpecBoard == InitBoard /\ [][NextBoard]_vars

\* Picks: the two list functions of main on every pick list
ApplyToPicks ==
    \E p \in PickUniverse :
        /\ Len(picks) < MaxPicks
        /\ picks' = Append(picks, p)
        /\ drafted_names' = DraftedNames(picks')
        /\ current_round' = CurrentRound(picks')
        /\ phase' = "done"
        /\ UNCHANGED <<csv, draft_id, upstream, cache, loaded, df, shown_round,
                       rendered, messages, fetch>>

NextPicks == ApplyToPicks

SpecPicks == Init /\ [][NextPicks]_vars

----------------------------------------------------------------------------
(* Claims *)

Count(S) == Cardinality(S)

Shown(i) == {p \in DOMAIN rendered : i \in Range(rendered[p])}

SinglePlayerCol(t) == HasCol(t.cols, "Player") /\ t.cols["Player"] = 1

LowerChar(c) ==
    CASE c = "A" -> "a" [] c = "B" -> "b" [] c = "C" -> "c" [] c = "D" -> "d"
      [] OTHER -> c

KeyChars == {"a", "b", "c", "d", "i", "o", "x", "y", " "}

RECURSIVE Collapse(_)
Collapse(s) ==
    IF Len(s) < 2 THEN s
    ELSE IF s[1] = " " /\ s[2] = " " THEN Collapse(Tail(s))
    ELSE <<Head(s)>> \o Collapse(Tail(s))

normalize(raw) ==
    LET lower == [i \in DOMAIN raw |-> LowerChar(raw[i])]
        kept == SelectSeq(lower, LAMBDA c : c \in KeyChars)
    IN Strip(Collapse(kept))

\* C2: a ranking row whose name has the normalized key of a drafted pick's
\* name is marked drafted.
C2_MatchByNormalizedKey ==
    (phase = "done" /\ df.rows # <<>> /\ SinglePlayerCol(df)) =>
        \A i \in DOMAIN df.rows : \A j \in DOMAIN drafted_names :
            normalize(df.rows[i].Player) = normalize(drafted_names[j])
                => df.rows[i].Drafted

\* C3: a cycle whose picks request failed works with an empty pick list,
\* shows the warning, marks nobody, reports round 1 and runs to the end of
\* render_draft_board.
C3_FailedFetchStillRenders ==
    (phase # "idle" /\ fetch = "failed") =>
        /\ picks = NoPicks
        /\ FetchWarning \in messages
        /\ drafted_names = <<>>
        /\ shown_round = 1
        /\ phase = "done"

\* C4: no cycle reuses an earlier result: a cycle with a draft id works with
\* the pick list the service has at that time, unless its own request failed.
C4_NoReuse ==
    [][(RunCycle /\ draft_id # "" /\ fetch' # "failed") => picks' = upstream]_vars

HasUsableName(p) ==
    /\ "metadata" \in DOMAIN p
    /\ \E k \in {"first_name", "last_name"} :
          /\ k \in DOMAIN p["metadata"]
          /\ p["metadata"][k] # Null
          /\ \E i \in DOMAIN p["metadata"][k] : p["metadata"][k][i] # " "

HasTeam(p, t) == "picked_by" \in DOMAIN p /\ p["picked_by"] = t

\* C5: on pick lists with metadata, first_name, last_name or picked_by absent
\* or null, the names are those of the picks with a usable name, none blank,
\* and the round is computed from the teams of the picks that have one.
C5_AbsentFieldsDegrade ==
    LET usable == {i \in DOMAIN picks : HasUsableName(picks[i])}
        teams == {t \in TeamIds : \E i \in DOMAIN picks : HasTeam(picks[i], t)}
    IN /\ Len(drafted_names) = Count(usable)
       /\ \A j \in DOMAIN drafted_names :
             /\ drafted_names[j] # <<>>
             /\ \A c \in Range(drafted_names[j]) : c # "null"
             /\ Head(drafted_names[j]) # " "
       /\ current_round = (Len(picks) \div Max(1, Count(teams))) + 1

C5_Witness ==
    /\ phase = "done"
    /\ \E i \in DOMAIN picks : "metadata" \notin DOMAIN picks[i]
    /\ \E i \in DOMAIN picks :
          /\ "metadata" \in DOMAIN picks[i]
          /\ Get(picks[i]["metadata"], "first_name") = Null
          /\ "picked_by" \notin DOMAIN picks[i]
    /\ Len(drafted_names) = 1
    /\ Len(picks) = 3

\* C6: a cycle whose normalized table lacks a required column shows an error
\* naming the missing columns, draws no table and does not raise.
C6_MissingColumnsHalt ==
    (phase # "idle" /\ Missing(loaded.cols) # {}) =>
        /\ \E m \in messages : m.kind = "error" /\ m.about = Missing(loaded.cols)
        /\ rendered = NoTables
        /\ phase # "raised"

OtherCols(cols) == [n \in DOMAIN cols \ {"Drafted"} |-> cols[n]]

\* C7: marking keeps the rows, their order and every column but Drafted.
C7_MarkKeepsRows ==
    phase # "idle" =>
        /\ Len(df.rows) = Len(loaded.rows)
        /\ \A i \in DOMAIN df.rows :
              /\ df.rows[i].Rank = loaded.rows[i].Rank
              /\ df.rows[i].Player = loaded.rows[i].Player
              /\ df.rows[i].Position = loaded.rows[i].Position
        /\ OtherCols(df.cols) = OtherCols(loaded.cols)

C7_Witness ==
    /\ phase = "done"
    /\ Len(df.rows) = 2
    /\ df.rows[1].Player # df.rows[2].Player
    /\ \E i \in DOMAIN df.rows : df.rows[i].Drafted # loaded.rows[i].Drafted
    /\ \E i \in DOMAIN df.rows : df.rows[i].Drafted

\* the picks are the first picks of a draft of the teams T in which every
\* team picks once per round
IsDraftOf(ps, T) ==
    LET N == Count(T) IN
    /\ \A i \in DOMAIN ps : \E t \in T : HasTeam(ps[i], t)
    /\ \A i, j \in DOMAIN ps :
          (i # j /\ (i - 1) \div N = (j - 1) \div N) => ps[i]["picked_by"] # ps[j]["picked_by"]

\* C8: the estimate is at least 1, is 1 for no picks, and after k picks of
\* an N-team draft is floor(k / N) + 1.
C8_RoundOfNextPick ==
    /\ current_round >= 1
    /\ picks = <<>> => current_round = 1
    /\ \A T \in SUBSET TeamIds :
          (T # {} /\ picks # <<>> /\ IsDraftOf(picks, T))
              => current_round = (Len(picks) \div Count(T)) + 1

\* C9: with all required columns present every undrafted row is in exactly
\* the table of its upper-cased Position, once.
C9_EveryUndraftedRowShownOnce ==
    (phase = "done" /\ Missing(df.cols) = {}) =>
        \A i \in DOMAIN df.rows :
            ~df.rows[i].Drafted =>
                /\ Shown(i) = {Upper(df.rows[i].Position)}
                /\ \A p \in Shown(i) :
                      Count({k \in DOMAIN rendered[p] : rendered[p][k] = i}) = 1

\* C10: normalize_columns on a non-empty table leaves each of Rank, Player,
\* Position, NFL Team and Drafted naming at most one column, with Rank and
\* Drafted present.
C10_TargetsNameOneColumn ==
    (phase # "idle" /\ csv.uploaded /\ csv.rows # <<>>) =>
        /\ \A n \in REQUIRED_COLS \cup {"Drafted"} :
              HasCol(loaded.cols, n) => loaded.cols[n] = 1
        /\ HasCol(loaded.cols, "Rank")
        /\ HasCol(loaded.cols, "Drafted")

====
